---- MODULE Spec2Model ----
(***************************************************************************)
(* Servo/Input State Engine of the servo controller: the servo state store *)
(* of hardware.py, the input event router of controller_input.py, the web  *)
(* API handlers of web_interface.py and the shutdown sequence of main.py.  *)
(*                                                                         *)
(* Python binds a name imported with "from hardware import lock_state" in  *)
(* the importing module: an assignment to it there rebinds the importing   *)
(* module's global and leaves hardware.lock_state alone.  Each module's    *)
(* binding is therefore a variable of its own (lock_state, ci_lock_state,  *)
(* web_lock_state; servo_speed, ci_servo_speed; ci_exit_flag,              *)
(* main_exit_flag).  The dictionary hold_state is mutated in place and is  *)
(* one object shared by all modules.                                       *)
(***************************************************************************)
EXTENDS Integers, Sequences, FiniteSets, TLC

VARIABLES
    servo_positions,    \* hardware.servo_positions: channel -> stored angle
    servo_directions,   \* hardware.servo_directions: channel -> direction
    hold_state,         \* hardware.hold_state (shared dict): channel -> BOOLEAN
    lock_state,         \* hardware.lock_state
    servo_speed,        \* hardware.servo_speed, in tenths
    pca_connected,      \* hardware.pca_connected (pwm is set exactly when it is)
    ci_lock_state,      \* controller_input.lock_state
    ci_servo_speed,     \* controller_input.servo_speed, in tenths
    q_pressed,          \* controller_input.q_pressed
    ci_exit_flag,       \* controller_input.exit_flag
    controller_type,    \* controller_input.controller_type
    armed_for,          \* seconds since the first exit press (4: more than 3)
    web_lock_state,     \* web_interface.lock_state
    main_exit_flag,     \* main.exit_flag
    pc,                 \* position of the main thread
    stop_calls,         \* number of stop_all_servos() calls made so far
    pwm_written,        \* PWM commands issued by the most recent operation
    last,               \* the most recent operation: name, arguments, result
    nops,               \* number of operations performed so far
    race,               \* two set_servo_position calls running in two threads
    pwm_fails,          \* the PWM driver raises on every write (bus error)
    jt,                 \* a raw axis value and what joystick_to_angle made of it
    snap,               \* a status read taken while set_servo_position runs
    mpu_connected,      \* hardware.mpu_connected (mpu is set exactly when it is)
    mpu_data,           \* hardware.mpu_data, accelerations in tenths of m/s^2
    v2,                 \* servo_controller_v2: q_pressed, exit_flag, timers
    tog                 \* two hold toggles running in two threads

vars == <<servo_positions, servo_directions, hold_state, lock_state,
          servo_speed, pca_connected, ci_lock_state, ci_servo_speed,
          q_pressed, ci_exit_flag, controller_type, armed_for, web_lock_state,
          main_exit_flag, pc, stop_calls, pwm_written, last, nops, race,
          pwm_fails, jt, snap, mpu_connected, mpu_data, v2, tog>>

storeVars == <<servo_positions, servo_directions, hold_state, lock_state,
               servo_speed>>

sessionVars == <<ci_lock_state, ci_servo_speed, q_pressed, ci_exit_flag,
                 controller_type, armed_for>>

mainVars == <<main_exit_flag, pc, stop_calls>>

\* What no handler of the program assigns.
sensorVars == <<mpu_connected, mpu_data>>

\* What belongs to the standalone controller and to the toggle threads.
asideVars == <<v2, tog>>

restVars == <<pca_connected, pwm_fails, race, jt, snap, sensorVars,
              asideVars>>

----------------------------------------------------------------------------
(* Bounds of the model *)

MaxOps == 2

MaxStops == 2

MaxPresses == 4

(* Inputs *)

RawInputs == {-40000, -32767, 0, 32767, 40000}

AngleInputs == {-20, 0, 90, 200}

UnknownChannels == {4}

----------------------------------------------------------------------------
(* config.py *)

SERVO_MIN == 150

SERVO_MAX == 600

SERVO_CHANNELS == <<0, 1, 2, 3>>

Channels == {SERVO_CHANNELS[i] : i \in 1..Len(SERVO_CHANNELS)}

----------------------------------------------------------------------------
(* hardware.py: axis transform *)

\* Python's int() on a quotient: truncation toward zero.
TruncDiv(n, d) == IF n >= 0 THEN n \div d ELSE -((-n) \div d)

\* Mutant: the raw value is scaled without the offset of 32767.
joystick_to_angle_Unshifted(value) == TruncDiv(value * 180, 65534)

joystick_to_angle(value) == TruncDiv((value + 32767) * 180, 65534)

\* Mutant: the upper limit of the constraint is missing.
Clamp_NoUpper(angle) == IF angle < 0 THEN 0 ELSE angle

Clamp(angle) == IF angle > 180 THEN 180 ELSE IF angle < 0 THEN 0 ELSE angle

angle_to_pwm(angle) ==
    SERVO_MIN + TruncDiv(Clamp(angle) * (SERVO_MAX - SERVO_MIN), 180)

----------------------------------------------------------------------------
(* hardware.py: servo state store.  A store operation maps a store value   *)
(* s = [positions, directions, pwm, ret] to the store value it leaves; pwm *)
(* collects the driver commands it issues and ret is what it returns.      *)

\* 'if pca_connected and pwm:' holds and the driver call raises.
DriverFails == pca_connected /\ pwm_fails

\* 'if pca_connected and pwm:' holds and the driver call returns.
DriverWrites == pca_connected /\ ~pwm_fails

Store == [positions |-> servo_positions, directions |-> servo_directions,
          pwm |-> <<>>, ret |-> "None"]

DirectionOf(channel, angle, previous) ==
    IF angle > previous THEN (IF channel \in {1, 2} THEN "up" ELSE "right")
    ELSE IF angle < previous THEN (IF channel \in {1, 2} THEN "down" ELSE "left")
    ELSE "neutral"

\* Mutant: the channel is not validated.
set_servo_position_Unchecked(s, channel, angle) ==
    IF channel \notin Channels
    THEN [s EXCEPT !.pwm = Append(s.pwm, <<channel, 0, angle_to_pwm(angle)>>),
                   !.ret = "True"]
    ELSE [positions |-> [s.positions EXCEPT ![channel] = Clamp(angle)],
          directions |-> [s.directions EXCEPT ![channel] =
                             DirectionOf(channel, angle, s.positions[channel])],
          pwm |-> IF DriverWrites
                  THEN Append(s.pwm, <<channel, 0, angle_to_pwm(angle)>>)
                  ELSE s.pwm,
          ret |-> "True"]

\* Mutant: the requested angle is stored as it came, the pulse alone is
\* constrained.
set_servo_position_StoreRaw(s, channel, angle) ==
    IF channel \notin Channels
    THEN [s EXCEPT !.ret = "False"]
    ELSE [positions |-> [s.positions EXCEPT ![channel] = angle],
          directions |-> [s.directions EXCEPT ![channel] =
                             DirectionOf(channel, angle, s.positions[channel])],
          pwm |-> IF DriverWrites
                  THEN Append(s.pwm, <<channel, 0, angle_to_pwm(angle)>>)
                  ELSE s.pwm,
          ret |-> "True"]

\* Mutant: a failed driver write undoes the call.
set_servo_position_RollsBack(s, channel, angle) ==
    IF channel \notin Channels \/ DriverFails
    THEN [s EXCEPT !.ret = "False"]
    ELSE LET direction == DirectionOf(channel, angle, s.positions[channel])
             constrained == Clamp(angle)
             pulse == angle_to_pwm(constrained)
         IN  [positions |-> [s.positions EXCEPT ![channel] = constrained],
              directions |-> [s.directions EXCEPT ![channel] = direction],
              pwm |-> IF DriverWrites
                      THEN Append(s.pwm, <<channel, 0, pulse>>)
                      ELSE s.pwm,
              ret |-> "True"]

\* The driver write is inside try/except: when it raises, the error is
\* logged, no pulse reaches the board and the call goes on.
set_servo_position(s, channel, angle) ==
    IF channel \notin Channels
    THEN [s EXCEPT !.ret = "False"]
    ELSE LET direction == DirectionOf(channel, angle, s.positions[channel])
             constrained == Clamp(angle)
             pulse == angle_to_pwm(constrained)
         IN  [positions |-> [s.positions EXCEPT ![channel] = constrained],
              directions |-> [s.directions EXCEPT ![channel] = direction],
              pwm |-> IF DriverWrites
                      THEN Append(s.pwm, <<channel, 0, pulse>>)
                      ELSE s.pwm,
              ret |-> "True"]

\* Mutant: the lock flag is not consulted.
move_servo_NoLock(s, channel, value) ==
    IF hold_state[channel]
    THEN [s EXCEPT !.ret = "None"]
    ELSE [set_servo_position(s, channel, joystick_to_angle(value))
            EXCEPT !.ret = "moved"]

\* Mutant: the channel's hold flag is not consulted.
move_servo_NoHold(s, channel, value) ==
    IF lock_state
    THEN [s EXCEPT !.ret = "None"]
    ELSE [set_servo_position(s, channel, joystick_to_angle(value))
            EXCEPT !.ret = "moved"]

move_servo(s, channel, value) ==
    IF lock_state \/ hold_state[channel]
    THEN [s EXCEPT !.ret = "None"]
    ELSE [set_servo_position(s, channel, joystick_to_angle(value))
            EXCEPT !.ret = "moved"]

RECURSIVE MoveEach(_, _, _)
MoveEach(s, i, angle) ==
    IF i > Len(SERVO_CHANNELS) THEN s
    ELSE MoveEach(IF ~hold_state[SERVO_CHANNELS[i]]
                  THEN set_servo_position(s, SERVO_CHANNELS[i], angle)
                  ELSE s,
                  i + 1, angle)

\* Mutant: channels on hold are moved like the others.
move_all_servos_IgnoreHold(s, angle) ==
    IF lock_state
    THEN [s EXCEPT !.ret = "None"]
    ELSE [set_servo_position(
             set_servo_position(
                set_servo_position(
                   set_servo_position(s, 0, angle), 1, angle), 2, angle),
             3, angle)
            EXCEPT !.ret = "results"]

move_all_servos(s, angle) ==
    IF lock_state
    THEN [s EXCEPT !.ret = "None"]
    ELSE [MoveEach(s, 1, angle) EXCEPT !.ret = "results"]

\* stop_all_servos(): one all-outputs-off command when the driver is there.
stop_all_servos == IF DriverWrites THEN <<<<"all", 0, 0>>>> ELSE <<>>

----------------------------------------------------------------------------
(* Bookkeeping shared by all operations *)

Op(name, channel, value, result) ==
    [op |-> name, ch |-> channel, val |-> value, ret |-> result]

Performed(op) == /\ last' = op
                 /\ nops' = nops + 1

Running == pc \in {"input_loop", "web_wait", "exit_sleep"}

\* Writes the store value r back to the module globals of hardware.py.
Commit(r) == /\ servo_positions' = r.positions
             /\ servo_directions' = r.directions
             /\ pwm_written' = r.pwm

----------------------------------------------------------------------------
(* Direct calls of the store operations *)

CallSetServoPosition(channel, angle) ==
    /\ Running /\ nops < MaxOps
    /\ LET r == set_servo_position(Store, channel, angle)
       IN  /\ Commit(r)
           /\ Performed(Op("set_servo_position", channel, angle, r.ret))
    /\ UNCHANGED <<hold_state, lock_state, servo_speed, restVars,
                   sessionVars, web_lock_state, mainVars>>

CallMoveServo(channel, value) ==
    /\ Running /\ nops < MaxOps
    /\ LET r == move_servo(Store, channel, value)
       IN  /\ Commit(r)
           /\ Performed(Op("move_servo", channel, value, r.ret))
    /\ UNCHANGED <<hold_state, lock_state, servo_speed, restVars,
                   sessionVars, web_lock_state, mainVars>>

CallMoveAllServos(angle) ==
    /\ Running /\ nops < MaxOps
    /\ LET r == move_all_servos(Store, angle)
       IN  /\ Commit(r)
           /\ Performed(Op("move_all_servos", -1, angle, r.ret))
    /\ UNCHANGED <<hold_state, lock_state, servo_speed, restVars,
                   sessionVars, web_lock_state, mainVars>>

----------------------------------------------------------------------------
(* controller_input.py: input event router *)

\* evdev key codes named by handle_controller_input for Xbox controllers
BTN_SOUTH == 304

BTN_EAST == 305

BTN_NORTH == 307

BTN_WEST == 308

BTN_TL == 310

BTN_TR == 311

BTN_DPAD_UP == 544

BTN_DPAD_DOWN == 545

BTN_DPAD_LEFT == 546

BTN_DPAD_RIGHT == 547

KEY_Q == 16

PSKind == controller_type \in {"PS3", "PS"}

\* The action a pressed button is dispatched to, as <<tag, argument>>.
PSButton(code) ==
    CASE code = 304 -> <<"hold", 0>>
      [] code = 305 -> <<"hold", 1>>
      [] code = 308 -> <<"hold", 2>>
      [] code = 307 -> <<"hold", 3>>
      [] code = 294 -> <<"speed", -1>>
      [] code = 295 -> <<"speed", 1>>
      [] code = 298 -> <<"move_all", 0>>
      [] code = 299 -> <<"move_all", 180>>
      [] code = 288 -> <<"none", 0>>
      [] code = 291 -> <<"move_all", 90>>
      [] code = 300 -> <<"move_all", 90>>
      [] code = 302 -> <<"lock", 0>>
      [] code = 303 -> <<"move_all", 0>>
      [] code = 301 -> <<"move_all", 180>>
      [] code = 292 -> <<"exit", 0>>
      [] OTHER -> <<"none", 0>>

XboxButton(code) ==
    CASE code = BTN_SOUTH -> <<"hold", 0>>
      [] code = BTN_EAST -> <<"hold", 1>>
      [] code = BTN_WEST -> <<"hold", 2>>
      [] code = BTN_NORTH -> <<"hold", 3>>
      [] code = BTN_TL -> <<"speed", -1>>
      [] code = BTN_TR -> <<"speed", 1>>
      [] code = BTN_DPAD_UP -> <<"move_all", 90>>
      [] code = BTN_DPAD_DOWN -> <<"lock", 0>>
      [] code = BTN_DPAD_LEFT -> <<"move_all", 0>>
      [] code = BTN_DPAD_RIGHT -> <<"move_all", 180>>
      [] code = KEY_Q -> <<"exit", 0>>
      [] OTHER -> <<"none", 0>>

\* Mutant: the event's value is not looked at.
Button_AnyValue(code, value) ==
    IF PSKind THEN PSButton(code) ELSE XboxButton(code)

\* 'if event.value == 1:' and the dispatch of the session's kind.
Button(code, value) ==
    IF value # 1 THEN <<"none", 0>>
    ELSE IF PSKind THEN PSButton(code) ELSE XboxButton(code)

\* The axis codes with an entry in the dispatch of the session's kind.
MappedAxes == IF PSKind THEN {0, 1, 2, 3} ELSE {0, 1, 4, 5}

\* The channel an axis code of the session's kind is mapped to.
AxisChannel(code) ==
    CASE code = 0 -> 0
      [] code = 1 -> 1
      [] code = (IF PSKind THEN 2 ELSE 4) -> 2
      [] code = (IF PSKind THEN 3 ELSE 5) -> 3

\* Mutant: the left stick's X axis also drives channel 2.
AxisMove_LeftDrivesTwo(s, code, value) ==
    LET left == IF code = 0 THEN move_servo(move_servo(s, 0, value), 2, value)
                ELSE IF code = 1 THEN move_servo(s, 1, value)
                ELSE s
    IN  IF PSKind
        THEN IF code = 2 THEN move_servo(left, 2, value)
             ELSE IF code = 3 THEN move_servo(left, 3, value)
             ELSE left
        ELSE IF code = 5 THEN move_servo(left, 3, value)
             ELSE IF code = 4 THEN move_servo(left, 2, value)
             ELSE left

\* The axis branch: the left stick, then the right stick of the session's kind.
AxisMove(s, code, value) ==
    LET left == IF code = 0 THEN move_servo(s, 0, value)
                ELSE IF code = 1 THEN move_servo(s, 1, value)
                ELSE s
    IN  IF PSKind
        THEN IF code = 2 THEN move_servo(left, 2, value)
             ELSE IF code = 3 THEN move_servo(left, 3, value)
             ELSE left
        ELSE IF code = 5 THEN move_servo(left, 3, value)
             ELSE IF code = 4 THEN move_servo(left, 2, value)
             ELSE left

AdjustSpeed_NoFloor(speed, delta) ==
    IF delta < 0
    THEN speed - 1
    ELSE (IF speed + 1 < 20 THEN speed + 1 ELSE 20)

\* max(servo_speed - 0.1, 0.1) and min(servo_speed + 0.1, 2.0), in tenths.
AdjustSpeed(speed, delta) ==
    IF delta < 0
    THEN (IF speed - 1 > 1 THEN speed - 1 ELSE 1)
    ELSE (IF speed + 1 < 20 THEN speed + 1 ELSE 20)

\* find_game_controller sets controller_connected together with
\* controller_type; nothing assigns either afterwards.
controller_connected == controller_type # "None"

\* get_hardware_status()['servos']: the store's own globals, by reference.
get_hardware_status ==
    [positions |-> servo_positions, directions |-> servo_directions,
     hold_state |-> hold_state, lock_state |-> lock_state,
     speed |-> servo_speed]

\* get_controller_status()
get_controller_status ==
    [connected |-> controller_connected, type |-> controller_type,
     exit_flag |-> ci_exit_flag]

\* Events the input device delivers in the model
AxisCodes == {0, 1, 2, 3, 4, 5, 16}

AxisValues == {-32767, 0, 32767}

PSKeyCodes == {304, 305, 308, 307, 294, 295, 298, 299, 288, 291, 300, 302,
               303, 301, 292, 293}

XboxKeyCodes == {BTN_SOUTH, BTN_EAST, BTN_WEST, BTN_NORTH, BTN_TL, BTN_TR,
                 BTN_DPAD_UP, BTN_DPAD_DOWN, BTN_DPAD_LEFT, BTN_DPAD_RIGHT,
                 KEY_Q, 293}

KeyEvents ==
    {<<c, 1>> : c \in IF PSKind THEN PSKeyCodes ELSE XboxKeyCodes}
        \cup {<<304, 0>>, <<304, 2>>}

\* Mutant: the loop does not look at exit_flag before handling an event.
InLoop_IgnoresExit == pc = "input_loop"

\* The loop is running and 'if exit_flag: break' does not fire.
InLoop == pc = "input_loop" /\ ~ci_exit_flag

\* One EV_ABS event taken from read_loop and handled.
AxisEvent(code, value) ==
    /\ InLoop /\ nops < MaxOps
    /\ LET r == AxisMove(Store, code, value)
       IN  /\ Commit(r)
           /\ Performed(Op("axis", code, value, r.ret))
    /\ UNCHANGED <<hold_state, lock_state, servo_speed, restVars,
                   sessionVars, web_lock_state, mainVars>>

\* Mutant: a hold toggle also centres its channel.
KeyEvent_HoldCentres(code, value) ==
    /\ InLoop /\ nops < MaxOps
    /\ LET act == Button(code, value)
           r == IF act[1] = "move_all" THEN move_all_servos(Store, act[2])
                ELSE IF act[1] = "hold"
                     THEN set_servo_position(Store, act[2], 90)
                     ELSE Store
       IN  /\ hold_state' = IF act[1] = "hold"
                            THEN [hold_state EXCEPT ![act[2]] = ~hold_state[act[2]]]
                            ELSE hold_state
           /\ ci_servo_speed' = IF act[1] = "speed"
                                THEN AdjustSpeed(ci_servo_speed, act[2])
                                ELSE ci_servo_speed
           /\ ci_lock_state' = IF act[1] = "lock" THEN ~ci_lock_state
                               ELSE ci_lock_state
           /\ ci_exit_flag' = IF act[1] = "exit" /\ q_pressed THEN TRUE
                              ELSE ci_exit_flag
           /\ q_pressed' = IF act[1] = "exit" THEN TRUE ELSE q_pressed
           /\ armed_for' = IF act[1] = "exit" /\ ~q_pressed THEN 0
                            ELSE armed_for
           /\ Commit(r)
           /\ Performed(Op("key", code, value, act[1]))
    /\ UNCHANGED <<lock_state, servo_speed, restVars, controller_type,
                   web_lock_state, mainVars>>

\* One EV_KEY event taken from read_loop and handled.
KeyEvent(code, value) ==
    /\ InLoop /\ nops < MaxOps
    /\ LET act == Button(code, value)
           r == IF act[1] = "move_all" THEN move_all_servos(Store, act[2])
                ELSE Store
       IN  /\ hold_state' = IF act[1] = "hold"
                            THEN [hold_state EXCEPT ![act[2]] = ~hold_state[act[2]]]
                            ELSE hold_state
           /\ ci_servo_speed' = IF act[1] = "speed"
                                THEN AdjustSpeed(ci_servo_speed, act[2])
                                ELSE ci_servo_speed
           /\ ci_lock_state' = IF act[1] = "lock" THEN ~ci_lock_state
                               ELSE ci_lock_state
           /\ ci_exit_flag' = IF act[1] = "exit" /\ q_pressed THEN TRUE
                              ELSE ci_exit_flag
           /\ q_pressed' = IF act[1] = "exit" THEN TRUE ELSE q_pressed
           /\ armed_for' = IF act[1] = "exit" /\ ~q_pressed THEN 0
                            ELSE armed_for
           /\ Commit(r)
           /\ Performed(Op("key", code, value, act[1]))
    /\ UNCHANGED <<lock_state, servo_speed, restVars, controller_type,
                   web_lock_state, mainVars>>

\* The window the exit confirmation is specified to stay armed, in seconds.
ExitWindow == 3

\* One second passes while the confirmation is armed.  No code of
\* controller_input.py reads a clock or starts a timer: q_pressed stays.
Tick ==
    /\ pc = "input_loop" /\ q_pressed /\ ~ci_exit_flag
    /\ armed_for <= ExitWindow
    /\ armed_for' = armed_for + 1
    /\ last' = Op("tick", -1, 0, "None")
    /\ pwm_written' = <<>>
    /\ UNCHANGED <<storeVars, restVars, ci_lock_state, ci_servo_speed,
                   q_pressed, ci_exit_flag, controller_type, web_lock_state,
                   mainVars, nops>>

----------------------------------------------------------------------------
(* main.py: shutdown *)

\* exit_handler() up to its sleep: sets main's exit_flag and stops the servos.
\* stop_all_servos has no try/except: when the driver raises, the
\* exception leaves exit_handler before its sleep and sys.exit(0).
ExitHandler ==
    /\ main_exit_flag' = TRUE
    /\ stop_calls' = stop_calls + 1
    /\ pwm_written' = stop_all_servos
    /\ pc' = IF DriverFails THEN "crashed" ELSE "exit_sleep"

\* What the caller of exit_handler() gets.
ExitResult == IF DriverFails THEN "raised" ELSE "None"

\* SIGINT: Python runs exit_handler in the main thread, also when the main
\* thread is already inside exit_handler's sleep.  An exception raised by
\* the handler surfaces in the main thread where the signal found it: in
\* handle_controller_input either inside the per-event try (logged, the
\* loop goes on) or in read_loop (the outer handler sets exit_flag, the
\* function returns, main calls exit_handler(), which raises again);
\* anywhere else nothing catches it.
Sigint ==
    /\ Running /\ stop_calls < MaxStops
    /\ IF DriverFails /\ pc = "input_loop"
       THEN /\ main_exit_flag' = TRUE
            /\ pwm_written' = <<>>
            /\ \E at \in {"event", "read"} :
                  IF at = "event"
                  THEN /\ stop_calls' = stop_calls + 1
                       /\ pc' = pc
                       /\ ci_exit_flag' = ci_exit_flag
                       /\ last' = Op("sigint", -1, 0, "caught")
                  ELSE /\ stop_calls' = stop_calls + 2
                       /\ pc' = "crashed"
                       /\ ci_exit_flag' = TRUE
                       /\ last' = Op("sigint", -1, 0, "raised")
       ELSE /\ ExitHandler
            /\ ci_exit_flag' = ci_exit_flag
            /\ last' = Op("sigint", -1, 0, ExitResult)
    /\ UNCHANGED <<storeVars, restVars, ci_lock_state, ci_servo_speed,
                   q_pressed, controller_type, armed_for, web_lock_state,
                   nops>>

\* Every event the device may deliver: <<type, code, value>>.
LoopEvents ==
    {<<"key", ev[1], ev[2]>> : ev \in KeyEvents}
        \cup {<<"axis", c, v>> : c \in AxisCodes, v \in AxisValues}

\* An event of any type arrives after exit_flag was set: the loop breaks
\* before looking at it, handle_controller_input returns and main calls
\* exit_handler().
EventAfterExit(type, code, value) ==
    /\ pc = "input_loop" /\ ci_exit_flag /\ stop_calls < MaxStops
    /\ ExitHandler
    /\ last' = Op(IF type = "key" THEN "key_break" ELSE "axis_break",
                  code, value, ExitResult)
    /\ UNCHANGED <<storeVars, restVars, sessionVars, web_lock_state, nops>>

\* read_loop raises: the outer handler sets exit_flag, the function returns
\* and main calls exit_handler().
DeviceReadFails ==
    /\ pc = "input_loop" /\ stop_calls < MaxStops
    /\ ci_exit_flag' = TRUE
    /\ ExitHandler
    /\ last' = Op("read_error", -1, 0, ExitResult)
    /\ UNCHANGED <<storeVars, restVars, ci_lock_state, ci_servo_speed,
                   q_pressed, controller_type, armed_for, web_lock_state,
                   nops>>

\* sys.exit(0) at the end of exit_handler.
SysExit ==
    /\ pc = "exit_sleep"
    /\ pc' = "exited"
    /\ last' = Op("sys_exit", -1, 0, "None")
    /\ pwm_written' = <<>>
    /\ UNCHANGED <<storeVars, restVars, sessionVars, web_lock_state,
                   main_exit_flag, stop_calls, nops>>

----------------------------------------------------------------------------
(* web_interface.py: API handlers *)

ApiChannels == {0, 2} \cup UnknownChannels

JsonBodies == {"absent", "true", "false"}

\* POST /api/servo/<channel> with {"angle": angle}
ApiControlServo(channel, angle) ==
    /\ Running /\ nops < MaxOps
    /\ IF channel \notin Channels
       THEN /\ Commit(Store)
            /\ Performed(Op("control_servo", channel, angle, "400"))
       ELSE LET r == set_servo_position(Store, channel, angle)
            IN  /\ Commit(r)
                /\ Performed(Op("control_servo", channel, angle, "200"))
    /\ UNCHANGED <<hold_state, lock_state, servo_speed, restVars,
                   sessionVars, web_lock_state, mainVars>>

\* POST /api/servo/all with {"angle": angle}
ApiControlAllServos(angle) ==
    /\ Running /\ nops < MaxOps
    /\ LET r == move_all_servos(Store, angle)
       IN  /\ Commit(r)
           /\ Performed(Op("control_all_servos", -1, angle, "200"))
    /\ UNCHANGED <<hold_state, lock_state, servo_speed, restVars,
                   sessionVars, web_lock_state, mainVars>>

\* POST /api/servo/<channel> or /api/servo/all without an angle
ApiMissingAngle(channel) ==
    /\ Running /\ nops < MaxOps
    /\ Commit(Store)
    /\ Performed(Op("missing_angle", channel, 0, "400"))
    /\ UNCHANGED <<hold_state, lock_state, servo_speed, restVars,
                   sessionVars, web_lock_state, mainVars>>

\* POST /api/servo/hold/<channel>, body {"hold": b} or without "hold"
ApiToggleHold(channel, body) ==
    /\ Running /\ nops < MaxOps
    /\ IF channel \notin Channels
       THEN /\ hold_state' = hold_state
            /\ Performed(Op("toggle_hold", channel, 0, "400"))
       ELSE /\ hold_state' = [hold_state EXCEPT ![channel] =
                                 IF body = "absent" THEN ~hold_state[channel]
                                 ELSE body = "true"]
            /\ Performed(Op("toggle_hold", channel, 0, "200"))
    /\ Commit(Store)
    /\ UNCHANGED <<lock_state, servo_speed, restVars, sessionVars,
                   web_lock_state, mainVars>>

\* POST /api/servo/lock, body {"lock": b} or without "lock"
ApiToggleLock(body) ==
    /\ Running /\ nops < MaxOps
    /\ web_lock_state' = IF body = "absent" THEN ~web_lock_state
                         ELSE body = "true"
    /\ Commit(Store)
    /\ Performed(Op("toggle_lock", -1, 0, "200"))
    /\ UNCHANGED <<hold_state, lock_state, servo_speed, restVars,
                   sessionVars, mainVars>>

\* POST /api/stop
ApiStop ==
    /\ Running /\ stop_calls < MaxStops
    /\ stop_calls' = stop_calls + 1
    /\ pwm_written' = stop_all_servos
    /\ last' = Op("stop_servos", -1, 0,
                   IF DriverFails THEN "500" ELSE "200")
    /\ UNCHANGED <<storeVars, restVars, sessionVars, web_lock_state,
                   main_exit_flag, pc, nops>>

----------------------------------------------------------------------------
(* hardware.py: set_servo_position run by two threads at once.  The source *)
(* takes no lock, and CPython may switch threads between any two bytecodes *)
(* (and does so around the driver's I/O), so each read or write of a       *)
(* module global is a step of its own.                                     *)

Threads == {"input", "api"}

RaceChannels == {0, 1}

RaceIdle == [pc |-> [t \in Threads |-> "idle"],
             ch |-> [t \in Threads |-> 0],
             angle |-> [t \in Threads |-> 0],
             start |-> [positions |-> <<>>, directions |-> <<>>,
                        pwm |-> <<>>, ret |-> "None"]]

\* The store as it was when the first of the two calls began.
RaceStart == IF \A t \in Threads : race.pc[t] = "idle" THEN Store
             ELSE race.start

Enter(t, channel, angle) ==
    /\ race.pc[t] = "idle"
    /\ race' = [race EXCEPT !.pc[t] = "cmp_gt", !.ch[t] = channel,
                             !.angle[t] = angle, !.start = RaceStart]
    /\ UNCHANGED <<storeVars, asideVars, pca_connected, pwm_fails, jt, snap,
                   sensorVars, sessionVars, web_lock_state,
                   mainVars, pwm_written, last, nops>>

\* The controller thread handles an axis event of the left stick (axis
\* code c moves channel c): move_servo passes its lock and hold test and
\* calls set_servo_position(channel, joystick_to_angle(value)).
InputEnter(channel, value) ==
    /\ InLoop
    /\ ~(lock_state \/ hold_state[channel])
    /\ Enter("input", channel, joystick_to_angle(value))

\* A request handler runs control_servo(channel) with {"angle": angle} and
\* calls set_servo_position(channel, angle).
ApiEnter(channel, angle) ==
    /\ Running
    /\ channel \in Channels
    /\ Enter("api", channel, angle)

\* One step of set_servo_position in thread t.
RaceStep(t) ==
    LET c == race.ch[t]
        a == race.angle[t]
        at == race.pc[t]
    IN  /\ at \notin {"idle", "done"}
        /\ race' = [race EXCEPT !.pc[t] =
              CASE at = "cmp_gt" -> IF a > servo_positions[c]
                                    THEN "set_up" ELSE "cmp_lt"
                [] at = "cmp_lt" -> IF a < servo_positions[c]
                                    THEN "set_down" ELSE "set_neutral"
                [] at \in {"set_up", "set_down", "set_neutral"} -> "pwm"
                [] at = "pwm" -> "store"
                [] at = "store" -> "done"]
        /\ servo_directions' =
              CASE at = "set_up" ->
                     [servo_directions EXCEPT ![c] =
                         IF c \in {1, 2} THEN "up" ELSE "right"]
                [] at = "set_down" ->
                     [servo_directions EXCEPT ![c] =
                         IF c \in {1, 2} THEN "down" ELSE "left"]
                [] at = "set_neutral" ->
                     [servo_directions EXCEPT ![c] = "neutral"]
                [] OTHER -> servo_directions
        /\ pwm_written' =
              IF at = "pwm" /\ DriverWrites
              THEN Append(pwm_written, <<c, 0, angle_to_pwm(Clamp(a))>>)
              ELSE pwm_written
        /\ servo_positions' =
              IF at = "store" THEN [servo_positions EXCEPT ![c] = Clamp(a)]
              ELSE servo_positions
        /\ UNCHANGED <<hold_state, lock_state, servo_speed, asideVars,
                       pca_connected,
                       pwm_fails, jt, snap, sensorVars, sessionVars, web_lock_state, mainVars, last, nops>>

\* No status read has been taken.
NoStatus ==
    [taken |-> FALSE,
     status |-> [positions |-> [ch \in Channels |-> 90],
                 directions |-> [ch \in Channels |-> "neutral"],
                 hold_state |-> [ch \in Channels |-> FALSE],
                 lock_state |-> FALSE, speed |-> 10],
     race |-> RaceIdle]

\* GET /api/status handled by another request thread (or update_display
\* in the update thread) while set_servo_position calls are in progress:
\* get_hardware_status hands out the store's dicts and they are read as
\* they are at that moment.
StatusRead ==
    /\ Running
    /\ ~snap.taken
    /\ \E t \in Threads : race.pc[t] # "idle"
    /\ snap' = [taken |-> TRUE, status |-> get_hardware_status, race |-> race]
    /\ UNCHANGED <<storeVars, asideVars, pca_connected, pwm_fails, race, jt, sensorVars,
                   sessionVars,
                   web_lock_state, mainVars, pwm_written, last, nops>>

----------------------------------------------------------------------------
(* hardware.py: update_mpu_data, one sampling tick of the update thread.  *)
(* Accelerations are in tenths of m/s^2 (9.8 is 98, the thresholds 0.5    *)
(* and 0.3 are 5 and 3); gyroscope and temperature values are opaque.     *)

InitialMpuData ==
    [accel |-> <<0, 0, 0>>, gyro |-> <<0, 0, 0>>, temp |-> 0,
     direction |-> <<"neutral", "neutral", "neutral">>]

\* What the sensor returns in the model: at rest, tilted either way.
AccelSamples == {<<0, 0, 98>>, <<10, -10, 108>>, <<-10, 10, 88>>}

GyroSamples == {<<0, 0, 0>>, <<2, -2, 1>>}

TempSamples == {25, 26}

\* The query of one tick that raises, if any.
Failures == {"none", "accel", "gyro", "temp"}

\* What the simulation branch computes from the clock.
SimAccelSamples == {<<0, 5, 98>>, <<5, 0, 100>>, <<-5, -5, 96>>}

Gravity == 98

MpuDirection(accel, threshold) ==
    << IF accel[1] > threshold THEN "right"
       ELSE IF accel[1] < -threshold THEN "left" ELSE "neutral",
       IF accel[2] > threshold THEN "up"
       ELSE IF accel[2] < -threshold THEN "down" ELSE "neutral",
       IF accel[3] > Gravity + threshold THEN "up"
       ELSE IF accel[3] < Gravity - threshold THEN "down" ELSE "neutral" >>

\* The fields are assigned one query at a time inside one try: a query
\* that raises leaves what was assigned before it and skips the rest.
update_mpu_data(accel, gyro, temp, fail) ==
    IF mpu_connected
    THEN CASE fail = "accel" -> mpu_data
           [] fail = "gyro" -> [mpu_data EXCEPT !.accel = accel]
           [] fail = "temp" -> [mpu_data EXCEPT !.accel = accel, !.gyro = gyro]
           [] OTHER -> [accel |-> accel, gyro |-> gyro, temp |-> temp,
                        direction |-> MpuDirection(accel, 5)]
    ELSE [accel |-> accel, gyro |-> gyro, temp |-> temp,
          direction |-> MpuDirection(accel, 3)]

\* One pass of update_thread's loop up to update_mpu_data's return.
SensorTick(accel, gyro, temp, fail) ==
    /\ Running /\ ~main_exit_flag /\ nops < MaxOps
    /\ mpu_connected \/ fail = "none"
    /\ mpu_data' = update_mpu_data(accel, gyro, temp, fail)
    /\ Performed(Op("update_mpu_data", -1, 0, fail))
    /\ pwm_written' = <<>>
    /\ UNCHANGED <<storeVars, asideVars, pca_connected, pwm_fails, race, jt, snap,
                   mpu_connected, sessionVars, web_lock_state, mainVars>>

----------------------------------------------------------------------------
(* new_ps3_controller/servo_controller_v2.py: the exit confirmation with  *)
(* its threading.Timer.  Time advances in seconds; timers holds the       *)
(* seconds left of every timer started and not yet run.                   *)

V2Start == [q_pressed |-> FALSE, exit_flag |-> FALSE, timers |-> <<>>,
            armed_for |-> 0, presses |-> 0]

\* Mutant: a disarm timer is started by every qualifying press.
V2Press_TimerEveryPress ==
    /\ ~v2.exit_flag /\ v2.presses < MaxPresses
    /\ v2' = IF v2.q_pressed
             THEN [v2 EXCEPT !.exit_flag = TRUE, !.presses = @ + 1,
                             !.timers = Append(@, ExitWindow)]
             ELSE [v2 EXCEPT !.q_pressed = TRUE, !.armed_for = 0,
                             !.timers = Append(@, ExitWindow),
                             !.presses = @ + 1]
    /\ UNCHANGED <<storeVars, tog, pca_connected, pwm_fails, race, jt, snap,
                   sensorVars, sessionVars, web_lock_state, mainVars,
                   pwm_written, last, nops>>

\* The PS button (code 292) or the Xbox button (BTN_MODE) is pressed.
V2Press ==
    /\ ~v2.exit_flag /\ v2.presses < MaxPresses
    /\ v2' = IF v2.q_pressed
             THEN [v2 EXCEPT !.exit_flag = TRUE, !.presses = @ + 1]
             ELSE [v2 EXCEPT !.q_pressed = TRUE, !.armed_for = 0,
                             !.timers = Append(@, ExitWindow),
                             !.presses = @ + 1]
    /\ UNCHANGED <<storeVars, tog, pca_connected, pwm_fails, race, jt, snap,
                   sensorVars, sessionVars, web_lock_state, mainVars,
                   pwm_written, last, nops>>

\* One second passes; a timer that is due runs first.
V2Tick ==
    /\ v2.timers # <<>>
    /\ \A i \in 1..Len(v2.timers) : v2.timers[i] > 0
    /\ v2' = [v2 EXCEPT !.timers = [i \in 1..Len(@) |-> @[i] - 1],
                        !.armed_for = IF v2.q_pressed THEN @ + 1 ELSE @]
    /\ UNCHANGED <<storeVars, tog, pca_connected, pwm_fails, race, jt, snap,
                   sensorVars, sessionVars, web_lock_state, mainVars,
                   pwm_written, last, nops>>

\* A timer that is due runs its lambda: q_pressed = False.
V2TimerFires ==
    /\ \E i \in 1..Len(v2.timers) :
          /\ v2.timers[i] = 0
          /\ v2' = [v2 EXCEPT !.q_pressed = FALSE,
                              !.timers = [j \in 1..(Len(@) - 1) |->
                                             IF j < i THEN @[j] ELSE @[j + 1]]]
    /\ UNCHANGED <<storeVars, tog, pca_connected, pwm_fails, race, jt, snap,
                   sensorVars, sessionVars, web_lock_state, mainVars,
                   pwm_written, last, nops>>

----------------------------------------------------------------------------
(* controller_input.py and web_interface.py: a hold toggle in each of two *)
(* threads.  'hold_state[c] = not hold_state[c]' loads the flag, negates  *)
(* it and stores it, with no lock.                                        *)

ToggleIdle == [pc |-> [t \in Threads |-> "idle"],
               ch |-> [t \in Threads |-> 0],
               seen |-> [t \in Threads |-> FALSE],
               start |-> [ch \in Channels |-> FALSE]]

\* A face button of the controller ("input") or POST /api/servo/hold/<c>
\* without a "hold" field ("api") begins its toggle of channel c.
ToggleEnter(t, channel) ==
    /\ IF t = "input" THEN InLoop ELSE Running
    /\ tog.pc[t] = "idle"
    /\ tog' = [tog EXCEPT !.pc[t] = "load", !.ch[t] = channel,
                          !.start = IF \A u \in Threads : tog.pc[u] = "idle"
                                    THEN hold_state ELSE @]
    /\ UNCHANGED <<storeVars, v2, pca_connected, pwm_fails, race, jt, snap,
                   sensorVars, sessionVars, web_lock_state, mainVars,
                   pwm_written, last, nops>>

\* hold_state[channel] is loaded.
ToggleLoad(t) ==
    /\ tog.pc[t] = "load"
    /\ tog' = [tog EXCEPT !.pc[t] = "store",
                          !.seen[t] = hold_state[tog.ch[t]]]
    /\ UNCHANGED <<storeVars, v2, pca_connected, pwm_fails, race, jt, snap,
                   sensorVars, sessionVars, web_lock_state, mainVars,
                   pwm_written, last, nops>>

\* The negation of what was loaded is stored.
ToggleStore(t) ==
    /\ tog.pc[t] = "store"
    /\ tog' = [tog EXCEPT !.pc[t] = "done"]
    /\ hold_state' = [hold_state EXCEPT ![tog.ch[t]] = ~tog.seen[t]]
    /\ UNCHANGED <<servo_positions, servo_directions, lock_state, servo_speed,
                   v2, pca_connected, pwm_fails, race, jt, snap,
                   sensorVars, sessionVars, web_lock_state, mainVars,
                   pwm_written, last, nops>>

----------------------------------------------------------------------------
(* hardware.py: joystick_to_angle over the raw range of an axis *)

RawMin == -32767

RawMax == 32767

NoConversion == [value |-> 0, angle |-> 0, done |-> FALSE]

\* joystick_to_angle(value) for the raw value at hand
CallJoystickToAngle ==
    /\ ~jt.done
    /\ jt' = [jt EXCEPT !.angle = joystick_to_angle(jt.value), !.done = TRUE]
    /\ UNCHANGED <<storeVars, asideVars, pca_connected, pwm_fails, race, snap, sensorVars,
                   sessionVars,
                   web_lock_state, mainVars, pwm_written, last, nops>>

\* The stick moves one count further and the new raw value is converted.
CallJoystickToAngleNext ==
    /\ jt.done /\ jt.value < RawMax
    /\ jt' = [value |-> jt.value + 1, angle |-> joystick_to_angle(jt.value + 1),
              done |-> TRUE]
    /\ UNCHANGED <<storeVars, asideVars, pca_connected, pwm_fails, race, snap, sensorVars,
                   sessionVars,
                   web_lock_state, mainVars, pwm_written, last, nops>>

----------------------------------------------------------------------------
(* Specifications *)

\* The module globals after import, detect_i2c_devices() and
\* find_game_controller(): the driver was found or not, and a PS3-style or
\* Xbox-style controller was found or none was (web interface mode).
InitCommon ==
    /\ servo_positions = [ch \in Channels |-> 90]
    /\ servo_directions = [ch \in Channels |-> "neutral"]
    /\ hold_state = [ch \in Channels |-> FALSE]
    /\ servo_speed = 10
    /\ pca_connected \in BOOLEAN
    /\ ci_lock_state = FALSE
    /\ ci_exit_flag = FALSE
    /\ armed_for = 0
    /\ web_lock_state = FALSE
    /\ main_exit_flag = FALSE
    /\ stop_calls = 0
    /\ pwm_written = <<>>
    /\ last = Op("start", -1, 0, "None")
    /\ nops = 0
    /\ race = RaceIdle
    /\ snap = NoStatus
    /\ v2 = V2Start
    /\ tog = ToggleIdle
    /\ mpu_data = InitialMpuData

Init ==
    /\ InitCommon
    /\ q_pressed = FALSE
    /\ jt = NoConversion
    /\ mpu_connected = FALSE
    /\ ci_servo_speed = 10
    /\ pwm_fails \in BOOLEAN
    /\ lock_state = FALSE
    /\ controller_type \in {"PS3", "Xbox", "None"}
    /\ pc = IF controller_type = "None" THEN "web_wait" ELSE "input_loop"

Next ==
    \/ \E code \in AxisCodes, value \in AxisValues : AxisEvent(code, value)
    \/ \E ev \in KeyEvents : KeyEvent(ev[1], ev[2])
    \/ Tick
    \/ \E channel \in ApiChannels, angle \in AngleInputs :
          ApiControlServo(channel, angle)
    \/ \E angle \in AngleInputs : ApiControlAllServos(angle)
    \/ \E channel \in {0} : ApiMissingAngle(channel)
    \/ \E channel \in ApiChannels, body \in JsonBodies :
          ApiToggleHold(channel, body)
    \/ \E body \in JsonBodies : ApiToggleLock(body)
    \/ ApiStop
    \/ Sigint
    \/ \E ev \in LoopEvents : EventAfterExit(ev[1], ev[2], ev[3])
    \/ DeviceReadFails
    \/ SysExit

Spec == Init /\ [][Next]_vars

\* The store of hardware.py used as a module: any value of its lock flag,
\* direct calls of its operations with arbitrary arguments, and the API
\* handlers that address one channel.
StoreInit ==
    /\ InitCommon
    /\ q_pressed = FALSE
    /\ jt = NoConversion
    /\ mpu_connected = FALSE
    /\ ci_servo_speed = 10
    /\ pwm_fails \in BOOLEAN
    /\ lock_state \in BOOLEAN
    /\ controller_type = "None"
    /\ pc = "web_wait"

StoreNext ==
    \/ \E channel \in Channels \cup UnknownChannels, angle \in AngleInputs :
          CallSetServoPosition(channel, angle)
    \/ \E channel \in Channels, value \in RawInputs :
          CallMoveServo(channel, value)
    \/ \E angle \in AngleInputs : CallMoveAllServos(angle)
    \/ \E channel \in ApiChannels, angle \in AngleInputs :
          ApiControlServo(channel, angle)
    \/ \E channel \in ApiChannels, body \in JsonBodies :
          ApiToggleHold(channel, body)

StoreSpec == StoreInit /\ [][StoreNext]_vars

----------------------------------------------------------------------------
(* Properties *)

\* The step just taken was operation number nops' of kind name.
Did(names) == nops' = nops + 1 /\ last'.op \in names

ClampRef(a) == IF a < 0 THEN 0 ELSE IF a > 180 THEN 180 ELSE a

\* C1: while the store's lock flag is true, no call of move_servo or
\* move_all_servos, for any channel, raw value or angle, changes a stored
\* angle or direction or issues a PWM write.
C1_LockBlocksMoves ==
    [][(lock_state /\ Did({"move_servo", "move_all_servos"}))
        => /\ servo_positions' = servo_positions
           /\ servo_directions' = servo_directions
           /\ pwm_written' = <<>>]_vars

\* A move_servo call to full deflection was made with the lock on, the
\* channel free and the driver present, and the channel still reads 90.
C1_Witness ==
    /\ lock_state /\ pca_connected
    /\ last.op = "move_servo" /\ last.val = 32767
    /\ ~hold_state[last.ch]
    /\ servo_positions[last.ch] = 90

\* C2: once lock was turned on through an entry point (the controller's
\* lock button, or POST /api/servo/lock), the axis event or preset move-all
\* that follows leaves all four angles unchanged.
C2_LockedByEntryPoint ==
    [][(/\ \/ last.op = "key" /\ last.ret = "lock" /\ ci_lock_state
           \/ last.op = "toggle_lock" /\ web_lock_state
        /\ \/ Did({"axis", "control_all_servos"})
           \/ Did({"key"}) /\ last'.ret = "move_all")
        => servo_positions' = servo_positions]_vars

\* C3: move_servo(ch, raw) on a channel whose hold flag is true changes
\* neither its angle nor its direction, whatever the lock flag.
C3_HoldBlocksMoveServo ==
    [][\A c \in Channels :
          (hold_state[c] /\ Did({"move_servo"}) /\ last'.ch = c)
          => /\ servo_positions'[c] = servo_positions[c]
             /\ servo_directions'[c] = servo_directions[c]]_vars

\* A move_servo call to full deflection was made on a held channel with the
\* lock off, and the channel still reads 90.
C3_Witness ==
    /\ ~lock_state
    /\ last.op = "move_servo" /\ last.val = 32767
    /\ hold_state[last.ch]
    /\ servo_positions[last.ch] = 90

\* C4: while a channel's hold flag is true no movement command of any kind,
\* the API's per-channel set-angle request included, changes its angle.
C4_HoldBlocksEveryMove ==
    [][\A c \in Channels :
          (hold_state[c] /\ hold_state'[c])
          => servo_positions'[c] = servo_positions[c]]_vars

\* C5: every stored angle is an integer between 0 and 180, whatever
\* integers move_servo, move_all_servos and set_servo_position were given.
C5_AngleInRange ==
    \A c \in Channels : servo_positions[c] \in 0..180

\* set_servo_position was given 200 and the channel reads 180.
C5_Witness ==
    /\ last.op = "set_servo_position" /\ last.val = 200
    /\ last.ret = "True"
    /\ servo_positions[last.ch] = 180

InitialStore ==
    /\ servo_positions = [c \in Channels |-> 90]
    /\ servo_directions = [c \in Channels |-> "neutral"]
    /\ hold_state = [c \in Channels |-> FALSE]

\* C6: with lock false, move_all_servos(a) sets every channel not on hold
\* to a clamped into 0..180 and leaves angle and direction of every held
\* channel; from the initial state move_all_servos(0) leaves all channels
\* at 0, channels 1 and 2 pointing down and channels 0 and 3 left.
C6_MoveAll ==
    [][(~lock_state /\ Did({"move_all_servos"}))
        => /\ \A c \in Channels :
                IF hold_state[c]
                THEN /\ servo_positions'[c] = servo_positions[c]
                     /\ servo_directions'[c] = servo_directions[c]
                ELSE servo_positions'[c] = ClampRef(last'.val)
           /\ (InitialStore /\ last'.val = 0)
                => \A c \in Channels :
                      /\ servo_positions'[c] = 0
                      /\ servo_directions'[c] =
                            IF c \in {1, 2} THEN "down" ELSE "left"]_vars

\* move_all_servos(200) ran with channel 0 on hold and channel 1 free:
\* channel 0 still reads 90, channel 1 reads 180.
C6_Witness ==
    /\ ~lock_state
    /\ last.op = "move_all_servos" /\ last.val = 200
    /\ hold_state[0] /\ ~hold_state[1]
    /\ servo_positions[0] = 90 /\ servo_directions[0] = "neutral"
    /\ servo_positions[1] = 180 /\ servo_directions[1] = "up"

\* C7: a set-angle of a known channel repeated with the same angle, in
\* range or not, leaves the channel's direction neutral.
C7_RepeatIsNeutral ==
    [][(/\ last.op \in {"set_servo_position", "control_servo"}
        /\ last.ch \in Channels
        /\ Did({last.op})
        /\ last'.ch = last.ch
        /\ last'.val = last.val)
        => servo_directions'[last.ch] = "neutral"]_vars

\* C8: set_servo_position on a channel that is not configured returns
\* False, and the API's set-angle and hold endpoints answer such a channel
\* with an error; none of them changes an angle, a direction, a hold flag,
\* the lock or the speed, or issues a PWM write.
C8_UnknownChannel ==
    [][(Did({"set_servo_position", "control_servo", "toggle_hold"})
        /\ last'.ch \notin Channels)
        => /\ last'.ret = IF last'.op = "set_servo_position"
                          THEN "False" ELSE "400"
           /\ UNCHANGED <<storeVars, ci_lock_state, web_lock_state,
                          ci_servo_speed>>
           /\ pwm_written' = <<>>]_vars

\* set_servo_position(4, 200) was called with the driver present, after an
\* earlier operation had moved channel 0 to 180.
C8_Witness ==
    /\ pca_connected
    /\ last.op = "set_servo_position" /\ last.ch = 4 /\ last.val = 200
    /\ last.ret = "False"
    /\ servo_positions[0] = 180

\* C9: POST /api/servo/<channel> with an angle outside 0..180 is answered
\* with an error and leaves every channel's angle and direction unchanged.
C9_OutOfRangeRejected ==
    [][(Did({"control_servo"}) /\ last'.ch \in Channels
        /\ last'.val \notin 0..180)
        => /\ last'.ret # "200"
           /\ servo_positions' = servo_positions
           /\ servo_directions' = servo_directions]_vars

\* C9 as amended: POST /api/servo/<channel> with an angle outside 0..180 is
\* answered with success and stores the angle clamped into 0..180 on the
\* addressed channel; angle and direction of every other channel are
\* unchanged.
C9_OutOfRangeClamped ==
    [][(Did({"control_servo"}) /\ last'.ch \in Channels
        /\ last'.val \notin 0..180)
        => /\ last'.ret = "200"
           /\ servo_positions'[last'.ch] = ClampRef(last'.val)
           /\ \A c \in Channels \ {last'.ch} :
                 /\ servo_positions'[c] = servo_positions[c]
                 /\ servo_directions'[c] = servo_directions[c]]_vars

\* The API was asked for 200 degrees, answered 200 OK, and the channel
\* reads 180.
C9_Witness ==
    /\ last.op = "control_servo" /\ last.val = 200
    /\ last.ret = "200"
    /\ last.ch \in Channels
    /\ servo_positions[last.ch] = 180

\* C10: when the process has exited with the PWM driver present, the
\* command that zeroes all outputs (stop_all_servos) was issued exactly
\* once, whichever shutdown paths occurred.
C10_StopExactlyOnce ==
    (pc = "exited" /\ pca_connected) => stop_calls = 1

\* C11: the exit confirmation of controller_input is the machine
\* Idle/Armed/Exiting with a 3-second window: a qualifying press arriving
\* more than 3 seconds after the arming press only re-arms and does not
\* request exit.
C11_LatePressOnlyRearms ==
    [][(/\ q_pressed /\ ~ci_exit_flag
        /\ armed_for > ExitWindow
        /\ Did({"key"}) /\ last'.ret = "exit")
        => ~ci_exit_flag']_vars

\* Two threads, the controller's and a request handler's, each running one
\* set_servo_position.
RaceInit ==
    /\ InitCommon
    /\ q_pressed = FALSE
    /\ jt = NoConversion
    /\ mpu_connected = FALSE
    /\ ci_servo_speed = 10
    /\ pwm_fails = FALSE
    /\ lock_state = FALSE
    /\ controller_type \in {"PS3", "Xbox"}
    /\ pc = "input_loop"

RaceNext ==
    \/ \E channel \in RaceChannels, value \in AxisValues :
          InputEnter(channel, value)
    \/ \E channel \in RaceChannels, angle \in AngleInputs :
          ApiEnter(channel, angle)
    \/ \E t \in Threads : RaceStep(t)
    \/ StatusRead

RaceSpec == RaceInit /\ [][RaceNext]_vars

\* The store one serial order of the two calls leaves, first then second.
Serial(first, second) ==
    set_servo_position(
        set_servo_position(race.start, race.ch[first], race.angle[first]),
        race.ch[second], race.angle[second])

\* C12: when two set-angle operations on one channel have run concurrently,
\* one from the controller thread and one from a request handler, the
\* channel's (angle, direction) is the one a serial order of the two leaves.
C12_SerialOutcome ==
    (/\ \A t \in Threads : race.pc[t] = "done"
     /\ race.ch["input"] = race.ch["api"])
    => \E order \in {<<"input", "api">>, <<"api", "input">>} :
          LET c == race.ch["api"]
              s == Serial(order[1], order[2])
          IN  /\ servo_positions[c] = s.positions[c]
              /\ servo_directions[c] = s.directions[c]

\* The input router after any number of speed commands (every multiple of
\* 0.1 from 0.1 to 2.0 is reached from 1.0 by decreases or increases),
\* handling further key events.
SpeedInit ==
    /\ InitCommon
    /\ q_pressed = FALSE
    /\ jt = NoConversion
    /\ mpu_connected = FALSE
    /\ ci_servo_speed \in 1..20
    /\ pwm_fails = FALSE
    /\ lock_state = FALSE
    /\ controller_type \in {"PS3", "Xbox"}
    /\ pc = "input_loop"

SpeedNext ==
    \E ev \in KeyEvents : KeyEvent(ev[1], ev[2])

SpeedSpec == SpeedInit /\ [][SpeedNext]_vars

SpeedDown == {294, BTN_TL}

SpeedUp == {295, BTN_TR}

\* C13: after any speed-decrease or speed-increase command dispatched by
\* the input router the speed is within 0.1..2.0 (1..20 tenths); a decrease
\* at 0.1 and an increase at 2.0 leave it unchanged, and any other one
\* changes it by 0.1.
C13_SpeedBounds ==
    [][(Did({"key"}) /\ last'.ret = "speed")
       => /\ ci_servo_speed' \in 1..20
          /\ last'.ch \in SpeedDown =>
                ci_servo_speed' = IF ci_servo_speed = 1 THEN 1
                                  ELSE ci_servo_speed - 1
          /\ last'.ch \in SpeedUp =>
                ci_servo_speed' = IF ci_servo_speed = 20 THEN 20
                                  ELSE ci_servo_speed + 1
          /\ last'.ch \in SpeedDown \cup SpeedUp]_vars

\* A decrease command has been handled and the speed is at its floor.
C13_Witness ==
    /\ last.op = "key" /\ last.ret = "speed" /\ last.ch \in SpeedDown
    /\ ci_servo_speed = 1

\* C14: when the PWM driver write inside set_servo_position fails, the call
\* still stores the clamped angle and the direction for the channel and
\* returns success; nothing is rolled back.
C14_WriteFailureAbsorbed ==
    [][(DriverFails /\ Did({"set_servo_position"}) /\ last'.ch \in Channels)
        => /\ last'.ret = "True"
           /\ servo_positions' =
                 [servo_positions EXCEPT ![last'.ch] = ClampRef(last'.val)]
           /\ servo_directions' =
                 [servo_directions EXCEPT ![last'.ch] =
                     DirectionOf(last'.ch, last'.val,
                                 servo_positions[last'.ch])]
           /\ pwm_written' = <<>>]_vars

\* The first call, set_servo_position(ch, 200), ran with the driver
\* failing: it returned True and the channel went from 90 to 180.
C14_Witness ==
    /\ DriverFails /\ nops = 1
    /\ last.op = "set_servo_position" /\ last.val = 200
    /\ last.ret = "True"
    /\ servo_positions[last.ch] = 180
    /\ pwm_written = <<>>

\* C15: no failure of the PWM driver propagates out of a core operation,
\* neither from set_servo_position nor from stop_all_servos run by the
\* shutdown handler: the shutdown sequence completes.
C15_NoDriverFailurePropagates ==
    last.ret # "raised" /\ pc # "crashed"

\* C16: when reading from the input device fails, the controller session
\* becomes disconnected (get_controller_status reports connected false and
\* kind None) and the process keeps running, the API still served, instead
\* of terminating.
C16_ReadFailureDegrades ==
    [][(pc = "input_loop" /\ last'.op = "read_error")
        => /\ ~get_controller_status'.connected
           /\ get_controller_status'.type = "None"
           /\ pc' \in {"input_loop", "web_wait"}
           /\ ~main_exit_flag']_vars

\* C17: a hold command for a channel (controller face button or
\* POST /api/servo/hold/<channel>) and a lock command (controller or
\* POST /api/servo/lock) change only the addressed flag: every channel's
\* stored angle and direction stay, and no PWM write is issued.
C17_HoldLockNeverMove ==
    [][(\/ Did({"toggle_hold", "toggle_lock"})
        \/ Did({"key"}) /\ last'.ret \in {"hold", "lock"})
        => /\ servo_positions' = servo_positions
           /\ servo_directions' = servo_directions
           /\ pwm_written' = <<>>
           /\ servo_speed' = servo_speed /\ ci_servo_speed' = ci_servo_speed
           /\ IF last'.op = "toggle_lock" \/ last'.ret = "lock"
              THEN hold_state' = hold_state
              ELSE LET addressed == IF last'.op = "key"
                                    THEN Button(last'.ch, last'.val)[2]
                                    ELSE last'.ch
                   IN  /\ \A c \in Channels \ {addressed} :
                             hold_state'[c] = hold_state[c]
                       /\ UNCHANGED <<lock_state, ci_lock_state,
                                      web_lock_state>>]_vars

\* A face button has put channel 0 on hold after an earlier operation had
\* moved it to 0 with the driver writing: the channel still reads 0.
C17_Witness ==
    /\ DriverWrites /\ nops = 2
    /\ last.op = "key" /\ last.ret = "hold"
    /\ hold_state[0] /\ servo_positions[0] = 0
    /\ pwm_written = <<>>

\* joystick_to_angle applied to every raw value of an axis.
JoystickInit ==
    /\ InitCommon
    /\ q_pressed = FALSE
    /\ jt \in [value : RawMin..RawMax, angle : {0}, done : {FALSE}]
    /\ mpu_connected = FALSE
    /\ ci_servo_speed = 10
    /\ pwm_fails = FALSE
    /\ lock_state = FALSE
    /\ controller_type = "PS3"
    /\ pc = "input_loop"

JoystickNext ==
    \/ CallJoystickToAngle
    \/ CallJoystickToAngleNext

JoystickSpec == JoystickInit /\ [][JoystickNext]_vars

\* C18 (endpoints and range): joystick_to_angle(-32767) = 0,
\* joystick_to_angle(32767) = 180, and the result lies in 0..180 for every
\* raw value in [-32767, 32767].
C18_EndpointsAndRange ==
    jt.done
    => /\ jt.angle \in 0..180
       /\ jt.value = RawMin => jt.angle = 0
       /\ jt.value = RawMax => jt.angle = 180

\* C18: joystick_to_angle is monotonically non-decreasing over every raw
\* value in [-32767, 32767] (with the endpoints 0 and 180 above).
C18_Monotone ==
    [][jt'.done
        => /\ C18_EndpointsAndRange'
           /\ (jt.done /\ jt'.value = jt.value + 1)
                 => jt'.angle >= jt.angle]_vars

\* The conversion has reached the upper end of the range from the value
\* below it and gives 180.
C18_Witness ==
    jt.done /\ jt.value = RawMax /\ jt.angle = 180

\* round(((raw + 32767) / 65534) * 180): no raw value gives a tie, so
\* this is the floor of the rescaled value plus one half.
RoundRef(raw) == (2 * (raw + 32767) * 180 + 65534) \div (2 * 65534)

\* C19: for every raw value in [-32767, 32767], joystick_to_angle(raw)
\* equals round(((raw + 32767) / 65534) * 180).
C19_EqualsRounded ==
    jt.done => jt.angle = RoundRef(jt.value)

\* C20: after every set_servo_position(ch, a) on a known channel the
\* channel's direction agrees with the change of the stored angle made by
\* the call: neutral exactly when the stored angle is the same, up or right
\* exactly when it is greater, down or left exactly when it is less.
C20_DirectionFollowsStoredAngle ==
    [][(Did({"set_servo_position"}) /\ last'.ch \in Channels)
        => LET c == last'.ch
               before == servo_positions[c]
               after == servo_positions'[c]
               direction == servo_directions'[c]
           IN  /\ direction = "neutral" <=> after = before
               /\ direction \in {"up", "right"} <=> after > before
               /\ direction \in {"down", "left"} <=> after < before]_vars

\* C21: after the router has dispatched an action (axis move, hold toggle,
\* speed adjust, lock toggle, preset move-all), get_hardware_status shows
\* the value the action produced: the reported speed and lock are those the
\* router last set, as the reported hold flags and angles are.
C21_StatusShowsRouterState ==
    [][Did({"axis", "key"})
        => /\ get_hardware_status'.speed = ci_servo_speed'
           /\ get_hardware_status'.lock_state = ci_lock_state'
           /\ get_hardware_status'.hold_state = hold_state'
           /\ get_hardware_status'.positions = servo_positions'
           /\ get_hardware_status'.directions = servo_directions']_vars

\* C22: a status read taken while one set-angle operation on a channel is
\* in progress reports for that channel either the (angle, direction) pair
\* before the operation or the pair after it.
C22_StatusNeverHalfUpdated ==
    \A t \in Threads :
        (/\ snap.taken
         /\ snap.race.pc[t] \notin {"idle", "done"}
         /\ \A u \in Threads \ {t} : snap.race.pc[u] = "idle")
        => LET c == snap.race.ch[t]
               before == snap.race.start
               after == set_servo_position(before, c, snap.race.angle[t])
           IN  \E s \in {before, after} :
                  /\ snap.status.positions[c] = s.positions[c]
                  /\ snap.status.directions[c] = s.directions[c]

\* The update thread sampling the sensor, the board present or simulated.
SensorInit ==
    /\ InitCommon
    /\ q_pressed = FALSE
    /\ jt = NoConversion
    /\ mpu_connected \in BOOLEAN
    /\ ci_servo_speed = 10
    /\ pwm_fails = FALSE
    /\ lock_state = FALSE
    /\ controller_type = "None"
    /\ pc = "web_wait"

SensorNext ==
    \E accel \in AccelSamples \cup SimAccelSamples, gyro \in GyroSamples,
       temp \in TempSamples, fail \in Failures :
        /\ mpu_connected <=> accel \in AccelSamples
        /\ SensorTick(accel, gyro, temp, fail)

SensorSpec == SensorInit /\ [][SensorNext]_vars

\* C23: when a sensor query of one sampling tick fails (accelerometer,
\* gyroscope or temperature), the tick is skipped as a whole: every field
\* of the sensor snapshot keeps the value it had before the tick.
C23_FailedTickSkipped ==
    [][(Did({"update_mpu_data"}) /\ last'.ret # "none")
        => mpu_data' = mpu_data]_vars

\* The controller session by itself, Idle or Armed (one qualifying press
\* made), up to the end of the process.
SessionInit ==
    /\ InitCommon
    /\ q_pressed \in BOOLEAN
    /\ jt = NoConversion
    /\ mpu_connected = FALSE
    /\ ci_servo_speed = 10
    /\ pwm_fails = FALSE
    /\ lock_state = FALSE
    /\ controller_type \in {"PS3", "Xbox"}
    /\ pc = "input_loop"

SessionNext ==
    \/ \E code \in AxisCodes, value \in AxisValues : AxisEvent(code, value)
    \/ \E ev \in KeyEvents : KeyEvent(ev[1], ev[2])
    \/ \E ev \in LoopEvents : EventAfterExit(ev[1], ev[2], ev[3])
    \/ SysExit

SessionSpec == SessionInit /\ [][SessionNext]_vars

\* A controller event has been taken from the device in this step.
EventTaken == Did({"axis", "key"}) \/ last'.op \in {"key_break", "axis_break"}

\* C24: once the exit flag of the session is set it stays set, and no
\* controller event received afterwards is dispatched: none changes a
\* channel's angle, direction or hold, the lock, the speed or the exit flag.
C24_ExitingIsTerminal ==
    [][ci_exit_flag
        => /\ ci_exit_flag'
           /\ EventTaken
                => /\ last'.op \in {"key_break", "axis_break"}
                   /\ UNCHANGED <<storeVars, sessionVars, web_lock_state>>
      ]_vars

\* The second qualifying press set the exit flag and the next event, a
\* key press that would toggle a hold, only ended the loop.
C24_Witness ==
    /\ ci_exit_flag /\ last.op = "key_break"
    /\ last.ch = 304 /\ last.val = 1
    /\ ~hold_state[0]
    /\ pc = "exit_sleep"

\* The event taken in this step is a button release or auto-repeat, or its
\* code has no entry in the dispatch for the session's controller kind.
IgnorableEvent ==
    /\ EventTaken
    /\ \/ /\ last'.op \in {"key", "key_break"}
          /\ last'.val # 1 \/ Button(last'.ch, 1)[1] = "none"
       \/ /\ last'.op \in {"axis", "axis_break"}
          /\ last'.ch \notin MappedAxes

\* What a controller event may change stays as it is and the loop goes on.
NothingDispatched ==
    /\ UNCHANGED <<storeVars, sessionVars, web_lock_state>>
    /\ pwm_written' = <<>>
    /\ pc' = pc

\* C25 as stated: a button release, an auto-repeat or an event with an
\* unmapped code changes no channel's angle, direction or hold, nor the
\* lock, the speed or the exit-confirmation state, and does not end the
\* event loop.
C25_IgnoredEventChangesNothing ==
    [][IgnorableEvent => NothingDispatched]_vars

\* C25 amended: the same for such an event received while the exit flag is
\* not set; once the flag is set any event ends the loop.
C25_IgnoredEventWhileRunning ==
    [][(IgnorableEvent /\ ~ci_exit_flag) => NothingDispatched]_vars

\* The release of a face button was handled with the confirmation armed:
\* the loop runs, channel 0 is not on hold, the confirmation stays armed.
C25_Witness ==
    /\ last.op = "key" /\ last.ch = 304 /\ last.val = 0
    /\ q_pressed /\ ~ci_exit_flag /\ ~hold_state[0]
    /\ pc = "input_loop"

\* The session with the scheduling the code provides: exit_handler's sleep
\* returns and sys.exit(0) runs.  Whether the device delivers another
\* event is up to the device: read_loop blocks until it does.
SessionLive == SessionInit /\ [][SessionNext]_vars /\ WF_vars(SysExit)

\* C26: once the second qualifying press has set the exit flag, the
\* controller loop ends and exit_handler is eventually run, even if the
\* input device delivers no further event.
C26_ExitEventuallyRuns ==
    ci_exit_flag ~> main_exit_flag

\* servo_controller_v2's exit confirmation, presses and seconds passing.
V2Init ==
    /\ InitCommon
    /\ q_pressed = FALSE
    /\ jt = NoConversion
    /\ mpu_connected = FALSE
    /\ ci_servo_speed = 10
    /\ pwm_fails = FALSE
    /\ lock_state = FALSE
    /\ controller_type \in {"PS3", "Xbox"}
    /\ pc = "input_loop"

V2Next ==
    \/ V2Press
    \/ V2Tick
    \/ V2TimerFires

V2Spec == V2Init /\ [][V2Next]_vars

\* C27: in servo_controller_v2 at most one disarm timer is pending at any
\* time, and a timer started by one arming never disarms a later arming:
\* the confirmation is disarmed only when it has been armed for the full
\* 3 seconds.
C27_OneTimerFullWindow ==
    [][/\ Len(v2'.timers) <= 1
       /\ (v2.q_pressed /\ ~v2'.q_pressed) => v2.armed_for = ExitWindow
      ]_vars

\* The confirmation was armed, disarmed by its timer and armed again two
\* seconds ago: one timer is pending.
C27_Witness ==
    /\ v2.presses = 2 /\ v2.q_pressed /\ ~v2.exit_flag
    /\ v2.armed_for = 2 /\ Len(v2.timers) = 1

\* One hold toggle by the controller thread and one by a request handler.
ToggleInit ==
    /\ InitCommon
    /\ q_pressed = FALSE
    /\ jt = NoConversion
    /\ mpu_connected = FALSE
    /\ ci_servo_speed = 10
    /\ pwm_fails = FALSE
    /\ lock_state = FALSE
    /\ controller_type \in {"PS3", "Xbox"}
    /\ pc = "input_loop"

ToggleNext ==
    \/ \E t \in Threads, channel \in RaceChannels : ToggleEnter(t, channel)
    \/ \E t \in Threads : ToggleLoad(t)
    \/ \E t \in Threads : ToggleStore(t)

ToggleSpec == ToggleInit /\ [][ToggleNext]_vars

\* C28: two hold toggles of one channel issued concurrently, one by the
\* controller thread and one by a request handler, never lose an update:
\* after both have completed the hold flag has its value from before both,
\* and the hold flags of the other channels are unchanged.
C28_NoLostToggle ==
    (/\ \A t \in Threads : tog.pc[t] = "done"
     /\ tog.ch["input"] = tog.ch["api"])
    => hold_state = tog.start

\* C29: a single axis event handled by handle_controller_input changes the
\* angle and direction of at most one channel, the one mapped to the
\* event's axis code for the session's controller kind, and leaves the
\* angle, direction and hold of every other channel, the lock flag and the
\* speed unchanged.
C29_AxisMovesOneChannel ==
    [][Did({"axis"})
        => /\ \A c \in Channels :
                 (last'.ch \notin MappedAxes \/ c # AxisChannel(last'.ch))
                 => /\ servo_positions'[c] = servo_positions[c]
                    /\ servo_directions'[c] = servo_directions[c]
           /\ UNCHANGED <<hold_state, lock_state, servo_speed, ci_lock_state,
                          ci_servo_speed, web_lock_state>>]_vars

\* An Xbox right-stick event (axis code 5) at full deflection moved channel
\* 3 to 180 and the other channels still read 90.
C29_Witness ==
    /\ controller_type = "Xbox" /\ nops = 1
    /\ last.op = "axis" /\ last.ch = 5 /\ last.val = 32767
    /\ servo_positions = [c \in Channels |-> IF c = 3 THEN 180 ELSE 90]

\* C30: negating the raw axis value mirrors the angle about the 90-degree
\* centre: for every raw in [-32767, 32767],
\* joystick_to_angle(-raw) = 180 - joystick_to_angle(raw), and
\* joystick_to_angle(0) = 90.
C30_NegationMirrors ==
    jt.done
    => /\ joystick_to_angle(-jt.value) = 180 - jt.angle
       /\ jt.value = 0 => jt.angle = 90

====
